---- MODULE Spec2Model ----
(***************************************************************************)
(* Model of the Outlook/iCal -> Google Calendar synchronisation:           *)
(*   otg/api/events.py         event_field, is_same_event,                 *)
(*                             has_event_changed                           *)
(*   itg/api/outlook.py        load_calendar, filter_events                *)
(*   itg/tools/sync_calendars  sync_events (the poll loop), sys_main       *)
(* itg/api/sync.py (compare, sync) and itg/api/google.py (init_service,    *)
(* filter_events, the store primitives) are not part of the sources at     *)
(* hand; they are modelled from the specification's sections 4.3, 4.4, 6.  *)
(***************************************************************************)
EXTENDS Integers, Sequences, FiniteSets, TLC

VARIABLES
    pc,            \* position of the running program / of the function under test
    fevent,        \* event_field: the event argument
    fname,         \* event_field: the field argument
    fresult,       \* event_field: value returned or exception raised
    outlook,       \* matcher: the Outlook event argument
    google,        \* matcher: the Google event argument
    same,          \* matcher: result of is_same_event
    changed,       \* matcher: result of has_event_changed
    args,          \* sync_events: the parsed command line
    feed,          \* the VEVENTs of the calendar behind ical_calendar
    store,         \* the events of the Google calendar
    store0,        \* the Google calendar when the program started
    ical_cal,      \* sync_events: the loaded calendar
    ical_events,   \* sync_events: the filtered Outlook events
    google_events, \* sync_events: the listed Google events
    comparison,    \* sync_events: result of compare
    errors,        \* sync_events: result of sync
    calls,         \* the store primitives sync invoked in this cycle
    env,           \* what the environment did to the last load and sync
    log,           \* error and warning records written in this cycle
    exc,           \* the exception propagating out of sync_events, or None
    rc,            \* the value sys_main returned, -1 before it returns
    cycles,        \* iterations of the while loop begun
    synced,        \* iterations whose sync call returned
    sleeps         \* sleep(poll_interval) calls made

progvars ==
    <<args, feed, store, store0, ical_cal, ical_events, google_events, comparison,
      errors, calls, env, log, exc, rc, cycles, synced, sleeps>>

funvars == <<fevent, fname, fresult, outlook, google, same, changed>>

vars == <<pc, funvars, progvars>>

-----------------------------------------------------------------------------
(* Python values.  Every value is a record of the same shape so that any    *)
(* two values can be compared: k is the Python type (or the exception       *)
(* class for a raised exception), s a string payload, n and o integers.     *)

Val(k, s, n, o) == [k |-> k, s |-> s, n |-> n, o |-> o]

Str(x) == Val("str", x, 0, 0)
None == Val("NoneType", "", 0, 0)
PyBool(b) == Val("bool", "", IF b THEN 1 ELSE 0, 0)
\* datetime.date: n is the calendar day
Date(d) == Val("date", "", d, 0)
\* timezone-aware datetime.datetime: n is the local time, o the UTC offset
DateTime(local, off) == Val("datetime", "", local, off)
\* Google's {"dateTime": "<iso string with offset>"} and {"date": "YYYY-MM-DD"}
GDateTime(local, off) == Val("dict.dateTime", "", local, off)
GDate(d) == Val("dict.date", "", d, 0)
\* the key is not in the mapping
Absent == Val("absent", "", 0, 0)
\* a raised exception
KeyError(key) == Val("KeyError", key, 0, 0)
PyException(msg) == Val("Exception", msg, 0, 0)

IsRaise(v) == v.k \in {"KeyError", "Exception"}

\* Python's == on the values above: aware datetimes are equal when they are
\* the same instant, everything else by type and value.
PyEq(a, b) ==
    IF a.k = "datetime" /\ b.k = "datetime"
    THEN a.n - a.o = b.n - b.o
    ELSE a = b

\* "key in event"
Has(event, key) == event[key] # Absent
\* event[key]
Subscript(event, key) == IF Has(event, key) THEN event[key] ELSE KeyError(key)

-----------------------------------------------------------------------------
(* otg/api/events.py                                                        *)

EVENT_ID == "id"
EVENT_SUMMARY == "summary"
EVENT_DESCRIPTION == "description"
EVENT_LOCATION == "location"
EVENT_STATUS == "status"
EVENT_RECURRENCE == "recurrence"
EVENT_START == "start"
EVENT_END == "end"

EVENT_FIELDS ==
    <<EVENT_ID, EVENT_SUMMARY, EVENT_LOCATION, EVENT_DESCRIPTION,
      EVENT_STATUS, EVENT_RECURRENCE, EVENT_START, EVENT_END>>

EVENT_COMPARISON_FIELDS ==
    <<EVENT_SUMMARY, EVENT_DESCRIPTION, EVENT_LOCATION, EVENT_START, EVENT_END>>

Range(seq) == {seq[i] : i \in DOMAIN seq}

\* isinstance(event, icalendar.Event)
IsICal(event) == event.cls = "icalendar.Event"

\* event["DTSTART"].dt : the date or datetime held by the property
Dt(prop) == prop

\* datetime.fromisoformat(d["dateTime"]) / datetime.strptime(d["date"], ...).date()
ParseGoogleTime(d) ==
    IF d.k = "dict.dateTime" THEN DateTime(d.n, d.o) ELSE Date(d.n)

ICalField(event, field) ==
    CASE field = EVENT_ID -> Subscript(event, "UID")
      [] field = EVENT_SUMMARY ->
            IF Has(event, "SUMMARY") THEN event["SUMMARY"] ELSE Str("")
      [] field = EVENT_DESCRIPTION ->
            IF Has(event, "DESCRIPTION") THEN event["DESCRIPTION"] ELSE Str("")
      [] field = EVENT_STATUS -> Subscript(event, "STATUS")
      [] field = EVENT_LOCATION -> Subscript(event, "LOCATION")
      [] field = EVENT_RECURRENCE ->
            IF Has(event, "RRULE") THEN event["RRULE"] ELSE None
      [] field = EVENT_START ->
            IF Has(event, "DTSTART") THEN Dt(event["DTSTART"]) ELSE None
      [] field = EVENT_END ->
            IF Has(event, "DTEND") THEN Dt(event["DTEND"]) ELSE None
      [] OTHER -> PyException("Unhandled event field")

GoogleField(event, field) ==
    CASE field = EVENT_ID -> Subscript(event, "id")
      [] field = EVENT_SUMMARY ->
            IF Has(event, "summary") THEN event["summary"] ELSE Str("")
      [] field = EVENT_DESCRIPTION ->
            IF Has(event, "description") THEN event["description"] ELSE Str("")
      [] field = EVENT_STATUS -> Subscript(event, "status")
      [] field = EVENT_LOCATION -> Subscript(event, "location")
      [] field = EVENT_RECURRENCE ->
            IF Has(event, "recurrence") THEN event["recurrence"] ELSE None
      [] field = EVENT_START ->
            IF Has(event, "start") THEN ParseGoogleTime(event["start"]) ELSE None
      [] field = EVENT_END ->
            IF Has(event, "end") THEN ParseGoogleTime(event["end"]) ELSE None
      [] OTHER -> PyException("Unhandled event field")

event_field(event, field) ==
    IF field \notin Range(EVENT_FIELDS)
    THEN PyException("Unknown event field")
    ELSE IF IsICal(event) THEN ICalField(event, field)
         ELSE GoogleField(event, field)

is_same_event(o, g) ==
    LET oid == event_field(o, EVENT_ID)
        gid == IF Has(g, "iCalUID") THEN g["iCalUID"] ELSE Str("")
    IN  IF IsRaise(oid) THEN oid ELSE PyBool(PyEq(oid, gid))

\* the for loop of has_event_changed from position i of EVENT_COMPARISON_FIELDS
RECURSIVE ChangedFrom(_, _, _)
ChangedFrom(o, g, i) ==
    IF i > Len(EVENT_COMPARISON_FIELDS) THEN PyBool(FALSE)
    ELSE LET ovalue == event_field(o, EVENT_COMPARISON_FIELDS[i])
             gvalue == event_field(g, EVENT_COMPARISON_FIELDS[i])
         IN  IF IsRaise(ovalue) THEN ovalue
             ELSE IF IsRaise(gvalue) THEN gvalue
             ELSE IF ~PyEq(ovalue, gvalue) THEN PyBool(TRUE)
             ELSE ChangedFrom(o, g, i + 1)

has_event_changed(o, g) == ChangedFrom(o, g, 1)

-----------------------------------------------------------------------------
(* Events.  An event is a record over all keys of its shape; a key that the *)
(* mapping lacks holds Absent.                                              *)

ICalEvent(uid, summary, description, status, location, rrule, dtstart, dtend) ==
    [cls |-> "icalendar.Event", UID |-> uid, SUMMARY |-> summary,
     DESCRIPTION |-> description, STATUS |-> status, LOCATION |-> location,
     RRULE |-> rrule, DTSTART |-> dtstart, DTEND |-> dtend]

GoogleEvent(id, icaluid, summary, description, status, location, recurrence, start, end) ==
    [cls |-> "dict", id |-> id, iCalUID |-> icaluid, summary |-> summary,
     description |-> description, status |-> status, location |-> location,
     recurrence |-> recurrence, start |-> start, end |-> end]

NoEvent == [cls |-> "none"]

\* inputs of the accessor: every combination of present and missing keys
FieldICalEvents ==
    [cls : {"icalendar.Event"}, UID : {Absent, Str("A")},
     SUMMARY : {Absent, Str("s1")}, DESCRIPTION : {Absent, Str("d1")},
     STATUS : {Absent, Str("CONFIRMED")}, LOCATION : {Absent, Str("l1")},
     RRULE : {Absent, Str("FREQ=DAILY")},
     DTSTART : {Absent, Date(1), DateTime(10, 1)}, DTEND : {Absent, Date(2)}]

FieldGoogleEvents ==
    [cls : {"dict"}, id : {Absent, Str("g1")}, iCalUID : {Absent},
     summary : {Absent, Str("s1")}, description : {Absent, Str("d1")},
     status : {Absent, Str("confirmed")}, location : {Absent, Str("l1")},
     recurrence : {Absent, Str("FREQ=DAILY")},
     start : {Absent, GDate(1), GDateTime(10, 1)}, end : {Absent, GDate(2)}]

FieldNames == Range(EVENT_FIELDS) \cup {"colour"}

\* inputs of the matcher
MatchICalEvents ==
    [cls : {"icalendar.Event"}, UID : {Str(""), Str("A")},
     SUMMARY : {Absent, Str("s1"), Str("s2")}, DESCRIPTION : {Absent, Str("d1")},
     STATUS : {Absent, Str("CONFIRMED")}, LOCATION : {Absent, Str("l1")},
     RRULE : {Absent, Str("FREQ=DAILY")},
     DTSTART : {Absent, Date(1), DateTime(10, 1)}, DTEND : {Absent}]

MatchGoogleEvents ==
    [cls : {"dict"}, id : {Str("g1")}, iCalUID : {Absent, Str(""), Str("A")},
     summary : {Absent, Str("s1")}, description : {Absent, Str("d1")},
     status : {Absent}, location : {Absent, Str("l1")},
     recurrence : {Absent},
     start : {Absent, GDate(1), GDateTime(9, 0)}, end : {Absent, GDate(2)}]

-----------------------------------------------------------------------------
(* itg/api/sync.py and the Google store primitives (specification 4.3, 4.4, *)
(* 6): compare, the store's create/update/delete, sync                      *)

Matches(s, t) == is_same_event(s, t) = PyBool(TRUE)

\* left-to-right scan of the targets: index of the first match, 0 when none
FirstMatch(s, targets) ==
    IF \E i \in DOMAIN targets : Matches(s, targets[i])
    THEN CHOOSE i \in DOMAIN targets :
            /\ Matches(s, targets[i])
            /\ \A j \in 1..(i - 1) : ~Matches(s, targets[j])
    ELSE 0

\* the matched pairs <<source, target>> in source order
RECURSIVE MatchedFrom(_, _, _)
MatchedFrom(sources, targets, i) ==
    IF i > Len(sources) THEN <<>>
    ELSE LET m == FirstMatch(sources[i], targets)
         IN  (IF m = 0 THEN <<>> ELSE << <<sources[i], targets[m]>> >>)
             \o MatchedFrom(sources, targets, i + 1)

MatchedPairs(sources, targets) == MatchedFrom(sources, targets, 1)

compare(sources, targets) ==
    LET Unmatched(t) == \A i \in DOMAIN sources : ~Matches(sources[i], t)
        New(s) == FirstMatch(s, targets) = 0
        Differs(p) == has_event_changed(p[1], p[2]) = PyBool(TRUE)
        pairs == MatchedPairs(sources, targets)
        raised == {has_event_changed(pairs[i][1], pairs[i][2]) : i \in DOMAIN pairs}
                  \cup {is_same_event(sources[i], targets[j]) :
                            i \in DOMAIN sources, j \in DOMAIN targets}
    IN  IF \E r \in raised : IsRaise(r)
        THEN [exc |-> CHOOSE r \in raised : IsRaise(r),
              to_add |-> <<>>, to_update |-> <<>>, to_delete |-> <<>>]
        ELSE [exc |-> None,
              to_add |-> SelectSeq(sources, New),
              to_update |-> SelectSeq(pairs, Differs),
              to_delete |-> SelectSeq(targets, Unmatched)]

NoComparison == [exc |-> None, to_add |-> <<>>, to_update |-> <<>>, to_delete |-> <<>>]

\* a store-assigned event id
GId(n) == Val("str", "gid", n, 0)

\* the Google representation of a date or datetime
ToGoogleTime(v) ==
    IF v.k = "datetime" THEN GDateTime(v.n, v.o)
    ELSE IF v.k = "date" THEN GDate(v.n)
    ELSE Absent

\* the Google event resource written for an Outlook event
ToGoogle(s, id) ==
    GoogleEvent(id, s.UID, s.SUMMARY, s.DESCRIPTION, s.STATUS, s.LOCATION,
                s.RRULE, ToGoogleTime(s.DTSTART), ToGoogleTime(s.DTEND))

FreshId(gcal) ==
    GId(CHOOSE n \in 1..(Len(gcal) + 1) :
            /\ \A i \in DOMAIN gcal : gcal[i].id # GId(n)
            /\ \A m \in 1..(n - 1) : \E i \in DOMAIN gcal : gcal[i].id = GId(m))

create(gcal, s) == Append(gcal, ToGoogle(s, FreshId(gcal)))

update(gcal, s, t) ==
    [i \in DOMAIN gcal |->
        IF gcal[i].id = t.id THEN ToGoogle(s, t.id) ELSE gcal[i]]

delete(gcal, t) ==
    LET Other(g) == g.id # t.id IN SelectSeq(gcal, Other)

ACTION_ADD == "add"
ACTION_UPDATE == "update"
ACTION_DELETE == "delete"

\* the items of a comparison, as <<category, position>>
Items(cmp) ==
    {<<ACTION_ADD, i>> : i \in DOMAIN cmp.to_add}
    \cup {<<ACTION_UPDATE, i>> : i \in DOMAIN cmp.to_update}
    \cup {<<ACTION_DELETE, i>> : i \in DOMAIN cmp.to_delete}

NoErrors == [add |-> <<>>, update |-> <<>>, delete |-> <<>>]

\* one category's loop from position i; st is <<store, failures, calls>>
RECURSIVE SyncAdds(_, _, _, _)
SyncAdds(st, items, i, fails) ==
    IF i > Len(items) THEN st
    ELSE SyncAdds(
            <<IF <<ACTION_ADD, i>> \in fails THEN st[1] ELSE create(st[1], items[i]),
              IF <<ACTION_ADD, i>> \in fails THEN Append(st[2], i) ELSE st[2],
              Append(st[3], <<ACTION_ADD, i>>)>>,
            items, i + 1, fails)

RECURSIVE SyncUpdates(_, _, _, _)
SyncUpdates(st, items, i, fails) ==
    IF i > Len(items) THEN st
    ELSE SyncUpdates(
            <<IF <<ACTION_UPDATE, i>> \in fails THEN st[1]
              ELSE update(st[1], items[i][1], items[i][2]),
              IF <<ACTION_UPDATE, i>> \in fails THEN Append(st[2], i) ELSE st[2],
              Append(st[3], <<ACTION_UPDATE, i>>)>>,
            items, i + 1, fails)

RECURSIVE SyncDeletes(_, _, _, _)
SyncDeletes(st, items, i, fails) ==
    IF i > Len(items) THEN st
    ELSE SyncDeletes(
            <<IF <<ACTION_DELETE, i>> \in fails THEN st[1] ELSE delete(st[1], items[i]),
              IF <<ACTION_DELETE, i>> \in fails THEN Append(st[2], i) ELSE st[2],
              Append(st[3], <<ACTION_DELETE, i>>)>>,
            items, i + 1, fails)

\* the three loops of sync on a store whose calls for the items in fails raise
SyncAll(gcal, cmp, fails) ==
    LET a == SyncAdds(<<gcal, <<>>, <<>>>>, cmp.to_add, 1, fails)
        u == SyncUpdates(<<a[1], <<>>, a[3]>>, cmp.to_update, 1, fails)
        d == SyncDeletes(<<u[1], <<>>, u[3]>>, cmp.to_delete, 1, fails)
    IN  [store |-> d[1],
         errors |-> [add |-> a[2], update |-> u[2], delete |-> d[2]],
         calls |-> d[3]]

\* sync that gives up at the first call that raises
SyncUntilFailure(gcal, cmp, dryrun, fails) ==
    LET order == [i \in DOMAIN cmp.to_add |-> <<ACTION_ADD, i>>]
                 \o [i \in DOMAIN cmp.to_update |-> <<ACTION_UPDATE, i>>]
                 \o [i \in DOMAIN cmp.to_delete |-> <<ACTION_DELETE, i>>]
        failing == {k \in DOMAIN order : order[k] \in fails}
    IN  IF dryrun THEN [store |-> gcal, errors |-> NoErrors, calls |-> <<>>]
        ELSE IF failing = {} THEN SyncAll(gcal, cmp, fails)
        ELSE LET first == CHOOSE k \in failing : \A j \in failing : k <= j
                 r == SyncAll(gcal, cmp, {order[j] : j \in first..Len(order)})
                 Only(cat) == IF order[first][1] = cat
                              THEN <<order[first][2]>> ELSE <<>>
             IN  [store |-> r.store,
                  errors |-> [add |-> Only(ACTION_ADD), update |-> Only(ACTION_UPDATE),
                              delete |-> Only(ACTION_DELETE)],
                  calls |-> SubSeq(r.calls, 1, first)]

\* sync(service, calendar, comparison, dry_run) on a store whose calls for
\* the items in fails raise; gives the store afterwards, the error mapping
\* and the primitive calls made
sync(gcal, cmp, dryrun, fails) ==
    IF dryrun
    THEN [store |-> gcal, errors |-> NoErrors, calls |-> <<>>]
    ELSE SyncAll(gcal, cmp, fails)

-----------------------------------------------------------------------------
(* Values of the variables a specification does not use                     *)

NoArgs ==
    [ical_calendar |-> None, ical_id |-> None, ical_summary |-> None,
     ical_output |-> None, dry_run |-> FALSE, poll_interval |-> None]

NoEnv == [retrieved |-> FALSE, write_ok |-> FALSE, fails |-> {}]

FunIdle ==
    /\ fevent = NoEvent /\ fname = "" /\ fresult = Absent
    /\ outlook = NoEvent /\ google = NoEvent
    /\ same = Absent /\ changed = Absent

ProgIdle ==
    /\ args = NoArgs
    /\ feed = <<>> /\ store = <<>> /\ store0 = <<>>
    /\ ical_cal = <<>> /\ ical_events = <<>> /\ google_events = <<>>
    /\ comparison = NoComparison /\ errors = NoErrors /\ calls = <<>>
    /\ env = NoEnv /\ log = {} /\ exc = None /\ rc = -1
    /\ cycles = 0 /\ synced = 0 /\ sleeps = 0

-----------------------------------------------------------------------------
(* The accessor under test: event_field applied to one event and one field  *)

InitField ==
    /\ pc = "field_call"
    /\ fevent \in FieldICalEvents \cup FieldGoogleEvents
    /\ fname \in FieldNames
    /\ fresult = Absent
    /\ outlook = NoEvent /\ google = NoEvent
    /\ same = Absent /\ changed = Absent
    /\ ProgIdle

CallEventField ==
    /\ pc = "field_call"
    /\ fresult' = event_field(fevent, fname)
    /\ pc' = "field_done"
    /\ UNCHANGED <<fevent, fname, outlook, google, same, changed, progvars>>

NextField == CallEventField

SpecField == InitField /\ [][NextField]_vars

(* The matcher under test: is_same_event, then has_event_changed            *)

InitMatch ==
    /\ pc = "match_call"
    /\ outlook \in MatchICalEvents
    /\ google \in MatchGoogleEvents
    /\ same = Absent /\ changed = Absent
    /\ fevent = NoEvent /\ fname = "" /\ fresult = Absent
    /\ ProgIdle

CallIsSameEvent ==
    /\ pc = "match_call"
    /\ same' = is_same_event(outlook, google)
    /\ pc' = "match_same"
    /\ UNCHANGED <<fevent, fname, fresult, outlook, google, changed, progvars>>

CallHasEventChanged ==
    /\ pc = "match_same"
    /\ changed' = has_event_changed(outlook, google)
    /\ pc' = "match_done"
    /\ UNCHANGED <<fevent, fname, fresult, outlook, google, same, progvars>>

NextMatch == CallIsSameEvent \/ CallHasEventChanged

SpecMatch == InitMatch /\ [][NextMatch]_vars

-----------------------------------------------------------------------------
(* itg/api/outlook.py                                                       *)

HTTP_OK == 200
HttpStatusCodes == {HTTP_OK, 404}

PyInt(n) == Val("int", "", n, 0)

\* path_or_url.startswith("http:") or path_or_url.startswith("https:")
StartsWithHttp(s) == s \in {Str("http://outlook/calendar.ics"), Str("https://outlook/calendar.ics")}

\* re.match(pattern, string) for the literal patterns and the strings of the
\* model, none of which is a proper prefix of another
ReMatch(pattern, string) == pattern.s = string.s

\* the for loop of filter_events from position i; <<events kept, exception>>
RECURSIVE FilterFrom(_, _, _, _)
FilterFrom(calendar, regexp_id, regexp_summary, i) ==
    IF i > Len(calendar) THEN <<<<>>, None>>
    ELSE LET event == calendar[i]
             uid == IF regexp_id # None THEN Subscript(event, "UID") ELSE None
             summary == IF regexp_summary # None
                        THEN Subscript(event, "SUMMARY") ELSE None
             rest == FilterFrom(calendar, regexp_id, regexp_summary, i + 1)
         IN  IF IsRaise(uid) THEN <<<<>>, uid>>
             ELSE IF regexp_id # None /\ ~ReMatch(regexp_id, uid) THEN rest
             ELSE IF IsRaise(summary) THEN <<<<>>, summary>>
             ELSE IF regexp_summary # None /\ ~ReMatch(regexp_summary, summary) THEN rest
             ELSE IF rest[2] # None THEN rest
             ELSE <<<<event>> \o rest[1], None>>

filter_events(calendar, regexp_id, regexp_summary) ==
    FilterFrom(calendar, regexp_id, regexp_summary, 1)

-----------------------------------------------------------------------------
(* itg/tools/sync_calendars.py: sys_main -> main -> sync_events             *)

MaxFeed == 2
MaxStore == 1
MaxCycles == 2

SeqsUpTo(S, n) == UNION {[1..k -> S] : k \in 0..n}

ProgICalEvents ==
    {e \in [cls : {"icalendar.Event"}, UID : {Str("A"), Str("B")},
            SUMMARY : {Str("s2")}, DESCRIPTION : {Absent},
            STATUS : {Absent}, LOCATION : {Absent, Str("l1")},
            RRULE : {Absent}, DTSTART : {Absent}, DTEND : {Absent}] :
        e.UID = Str("B") \/ e.LOCATION # Absent}

ProgGoogleEvents ==
    [cls : {"dict"}, id : {GId(1)}, iCalUID : {Absent, Str("A")},
     summary : {Str("s1")}, description : {Absent},
     status : {Absent}, location : {Str("l1")},
     recurrence : {Absent}, start : {Absent}, end : {Absent}]

\* the events of a calendar carry distinct store ids
WithIds(events) == [i \in DOMAIN events |-> [events[i] EXCEPT !.id = GId(i)]]

ProgArgs ==
    [ical_calendar : {Str("https://outlook/calendar.ics"), Str("calendar.ics")},
     ical_id : {None, Str("A")}, ical_summary : {None},
     ical_output : {None, Str("outlook.ics")},
     dry_run : BOOLEAN, poll_interval : {None, PyInt(60)}]

Init ==
    /\ pc = "load"
    /\ args \in ProgArgs
    /\ feed \in SeqsUpTo(ProgICalEvents, MaxFeed)
    /\ store \in {WithIds(s) : s \in SeqsUpTo(ProgGoogleEvents, MaxStore)}
    /\ store0 = store
    /\ ical_cal = <<>> /\ ical_events = <<>> /\ google_events = <<>>
    /\ comparison = NoComparison /\ errors = NoErrors /\ calls = <<>>
    /\ env = NoEnv /\ log = {} /\ exc = None /\ rc = -1
    /\ cycles = 1 /\ synced = 0 /\ sleeps = 0
    /\ FunIdle

\* an exception leaves sync_events
Raise(e) ==
    /\ exc' = e
    /\ pc' = "raised"

\* load_calendar_from_url; catch: the write of the side file is inside try/except
LoadUrl(catch) ==
    /\ pc = "load"
    /\ StartsWithHttp(args.ical_calendar)
    /\ \E status \in HttpStatusCodes,
          w \in (IF args.ical_output # None THEN BOOLEAN ELSE {TRUE}) :
          /\ env' = [retrieved |-> (status = HTTP_OK), write_ok |-> w, fails |-> {}]
          /\ IF status = HTTP_OK
             THEN IF args.ical_output # None /\ ~w
                  THEN IF catch
                       THEN /\ log' = {"Failed to save Outlook calendar"}
                            /\ ical_cal' = feed
                            /\ pc' = "ofilter"
                            /\ UNCHANGED exc
                       ELSE /\ Raise(PyException("IOError"))
                            /\ log' = {}
                            /\ UNCHANGED ical_cal
                  ELSE /\ log' = {}
                       /\ ical_cal' = feed
                       /\ pc' = "ofilter"
                       /\ UNCHANGED exc
             ELSE /\ Raise(PyException("Failed to retrieve Outlook calendar"))
                  /\ log' = {}
                  /\ UNCHANGED ical_cal
    /\ UNCHANGED <<args, feed, store, store0, ical_events, google_events, comparison,
                   errors, calls, rc, cycles, synced, sleeps, funvars>>

LoadUrlNoCatch == LoadUrl(FALSE)

load_calendar_from_url == LoadUrl(TRUE)

\* load_calendar_from_path
load_calendar_from_path ==
    /\ pc = "load"
    /\ ~StartsWithHttp(args.ical_calendar)
    /\ \E exists \in BOOLEAN,
          w \in (IF args.ical_output # None THEN BOOLEAN ELSE {TRUE}) :
          /\ env' = [retrieved |-> exists, write_ok |-> w, fails |-> {}]
          /\ IF exists
             THEN /\ log' = IF args.ical_output # None /\ ~w
                            THEN {"Failed to copy Outlook calendar"} ELSE {}
                  /\ ical_cal' = feed
                  /\ pc' = "ofilter"
                  /\ UNCHANGED exc
             ELSE /\ Raise(PyException("Calendar file does not exist"))
                  /\ log' = {}
                  /\ UNCHANGED ical_cal
    /\ UNCHANGED <<args, feed, store, store0, ical_events, google_events, comparison,
                   errors, calls, rc, cycles, synced, sleeps, funvars>>

\* ical_events = ofilter_events(ical_cal, ...)
FilterOutlook ==
    /\ pc = "ofilter"
    /\ LET r == filter_events(ical_cal, args.ical_id, args.ical_summary)
       IN  IF r[2] # None
           THEN Raise(r[2]) /\ UNCHANGED ical_events
           ELSE ical_events' = r[1] /\ pc' = "init_service" /\ UNCHANGED exc
    /\ UNCHANGED <<args, feed, store, store0, ical_cal, google_events, comparison,
                   errors, calls, env, log, rc, cycles, synced, sleeps, funvars>>

\* google_service = init_service(google_credentials)
InitService ==
    /\ pc = "init_service"
    /\ \E ok \in BOOLEAN :
          IF ok THEN pc' = "gfilter" /\ UNCHANGED exc
          ELSE Raise(PyException("authentication failed"))
    /\ UNCHANGED <<args, feed, store, store0, ical_cal, ical_events, google_events,
                   comparison, errors, calls, env, log, rc, cycles, synced, sleeps,
                   funvars>>

\* google_events = gfilter_events(google_service, google_calendar, ...)
FilterGoogle ==
    /\ pc = "gfilter"
    /\ google_events' = store
    /\ pc' = "compare"
    /\ UNCHANGED <<args, feed, store, store0, ical_cal, ical_events, comparison,
                   errors, calls, env, log, exc, rc, cycles, synced, sleeps, funvars>>

\* comparison = compare(ical_events, google_events)
Compare ==
    /\ pc = "compare"
    /\ LET c == compare(ical_events, google_events)
       IN  IF c.exc # None
           THEN Raise(c.exc) /\ UNCHANGED comparison
           ELSE comparison' = c /\ pc' = "sync" /\ UNCHANGED exc
    /\ UNCHANGED <<args, feed, store, store0, ical_cal, ical_events, google_events,
                   errors, calls, env, log, rc, cycles, synced, sleeps, funvars>>

\* errors = sync(google_service, google_calendar, comparison, dry_run=dryrun),
\* the count of the errors and the warning; fatal_errors: a non-zero count
\* raises instead
SyncWith(dryrun, fatal_errors) ==
    /\ pc = "sync"
    /\ \E fatal \in (IF dryrun THEN {FALSE} ELSE BOOLEAN),
          fails \in (IF dryrun THEN {{}} ELSE SUBSET Items(comparison)) :
          IF fatal
          THEN /\ Raise(PyException("store unreachable"))
               /\ UNCHANGED <<store, errors, calls, env, log, synced>>
          ELSE LET r == sync(store, comparison, dryrun, fails)
                   num_errors == Len(r.errors.add) + Len(r.errors.update)
                                 + Len(r.errors.delete)
               IN  /\ store' = r.store
                   /\ errors' = r.errors
                   /\ calls' = r.calls
                   /\ env' = [env EXCEPT !.fails = fails]
                   /\ log' = IF num_errors > 0
                             THEN log \cup {"errors occurred"} ELSE log
                   /\ synced' = synced + 1
                   /\ IF num_errors > 0 /\ fatal_errors
                      THEN Raise(PyException("errors occurred"))
                      ELSE pc' = "poll" /\ UNCHANGED exc
    /\ UNCHANGED <<args, feed, store0, ical_cal, ical_events, google_events,
                   comparison, rc, cycles, sleeps, funvars>>

SyncIgnoringDryRun == SyncWith(FALSE, FALSE)

SyncRaisingOnErrors == SyncWith(args.dry_run, TRUE)

Sync == SyncWith(args.dry_run, FALSE)

\* if poll_interval is None: break
BreakIf(oneshot) ==
    /\ pc = "poll"
    /\ oneshot
    /\ pc' = "returned"
    /\ UNCHANGED <<progvars, funvars>>

BreakAlways == BreakIf(TRUE)

Break == BreakIf(args.poll_interval = None)

\* else: sleep(poll_interval), and the next iteration begins
Sleep ==
    /\ pc = "poll"
    /\ args.poll_interval # None
    /\ cycles < MaxCycles
    /\ sleeps' = sleeps + 1
    /\ cycles' = cycles + 1
    /\ calls' = <<>>
    /\ pc' = "load"
    /\ UNCHANGED <<args, feed, store, store0, ical_cal, ical_events, google_events,
                   comparison, errors, env, log, exc, rc, synced, funvars>>

\* sys_main: main() returned
SysMainReturn ==
    /\ pc = "returned"
    /\ rc' = 0
    /\ pc' = "exit"
    /\ UNCHANGED <<args, feed, store, store0, ical_cal, ical_events, google_events,
                   comparison, errors, calls, env, log, exc, cycles, synced, sleeps,
                   funvars>>

\* sys_main: except Exception: return code
SysMainExceptReturning(code) ==
    /\ pc = "raised"
    /\ rc' = code
    /\ pc' = "exit"
    /\ UNCHANGED <<args, feed, store, store0, ical_cal, ical_events, google_events,
                   comparison, errors, calls, env, log, exc, cycles, synced, sleeps,
                   funvars>>

SysMainExcept == SysMainExceptReturning(1)

Next ==
    \/ load_calendar_from_url
    \/ load_calendar_from_path
    \/ FilterOutlook
    \/ InitService
    \/ FilterGoogle
    \/ Compare
    \/ Sync
    \/ Break
    \/ Sleep
    \/ SysMainReturn
    \/ SysMainExcept

Spec == Init /\ [][Next]_vars

-----------------------------------------------------------------------------
(* One reconciliation on arbitrary lists: compare, the actions applied with *)
(* every store call succeeding, and compare again on the same sources       *)

MaxSources == 2
MaxTargets == 2

RecICalEvents ==
    [cls : {"icalendar.Event"}, UID : {Str(""), Str("A"), Str("B")},
     SUMMARY : {Str("s1"), Str("s2")}, DESCRIPTION : {Absent},
     STATUS : {Absent}, LOCATION : {Absent, Str("l1")},
     RRULE : {Absent}, DTSTART : {Absent}, DTEND : {Absent}]

RecGoogleEvents ==
    [cls : {"dict"}, id : {GId(1)}, iCalUID : {Absent, Str("A"), Str("B")},
     summary : {Str("s1"), Str("s2")}, description : {Absent},
     status : {Absent}, location : {Absent, Str("l1")},
     recurrence : {Absent}, start : {Absent}, end : {Absent}]

InitReconcile ==
    /\ pc = "rec_compare"
    /\ ical_events \in SeqsUpTo(RecICalEvents, MaxSources)
    /\ google_events \in {WithIds(s) : s \in SeqsUpTo(RecGoogleEvents, MaxTargets)}
    /\ store = google_events
    /\ store0 = google_events
    /\ args = NoArgs /\ feed = <<>> /\ ical_cal = <<>>
    /\ comparison = NoComparison /\ errors = NoErrors /\ calls = <<>>
    /\ env = NoEnv /\ log = {} /\ exc = None /\ rc = -1
    /\ cycles = 1 /\ synced = 0 /\ sleeps = 0
    /\ FunIdle

\* compare(sources, targets)
RecCompare ==
    /\ pc = "rec_compare"
    /\ LET c == compare(ical_events, google_events)
       IN  /\ comparison' = c
           /\ exc' = c.exc
           /\ pc' = IF c.exc # None THEN "rec_raised" ELSE "rec_sync"
    /\ UNCHANGED <<args, feed, store, store0, ical_cal, ical_events, google_events,
                   errors, calls, env, log, rc, cycles, synced, sleeps, funvars>>

\* every action of the comparison applied successfully
RecSync ==
    /\ pc = "rec_sync"
    /\ LET r == sync(store, comparison, FALSE, {})
       IN  /\ store' = r.store
           /\ errors' = r.errors
           /\ calls' = r.calls
    /\ synced' = synced + 1
    /\ pc' = "rec_again"
    /\ UNCHANGED <<args, feed, store0, ical_cal, ical_events, google_events,
                   comparison, env, log, exc, rc, cycles, sleeps, funvars>>

\* compare(sources, targets') of the second cycle
RecCompareAgain ==
    /\ pc = "rec_again"
    /\ LET c == compare(ical_events, store)
       IN  /\ comparison' = c
           /\ exc' = c.exc
    /\ cycles' = cycles + 1
    /\ pc' = "rec_done"
    /\ UNCHANGED <<args, feed, store, store0, ical_cal, ical_events, google_events,
                   errors, calls, env, log, rc, synced, sleeps, funvars>>

NextReconcile == RecCompare \/ RecSync \/ RecCompareAgain

SpecReconcile == InitReconcile /\ [][NextReconcile]_vars

-----------------------------------------------------------------------------
(* Properties                                                               *)

InSeq(x, seq) == \E i \in DOMAIN seq : seq[i] = x

\* C1: compare(sources, targets) returns a partition by identity: every
\* source is in exactly one of to_add and the matched pairs, every target in
\* exactly one of to_delete and the matched pairs, a matched pair is in
\* to_update exactly when has_event_changed is true for it, and no event is
\* in two result sets or in none.
C1_ComparePartitions ==
    pc \in {"rec_sync", "rec_raised"} =>
        LET pairs == MatchedPairs(ical_events, google_events)
            SourceMatched(s) == \E t \in Range(google_events) : Matches(s, t)
            TargetMatched(t) == \E s \in Range(ical_events) : Matches(s, t)
        IN  /\ exc = None
            /\ \A s \in Range(ical_events) :
                  InSeq(s, comparison.to_add) <=> ~SourceMatched(s)
            /\ \A t \in Range(google_events) :
                  InSeq(t, comparison.to_delete) <=> ~TargetMatched(t)
            /\ \A i \in DOMAIN pairs :
                  InSeq(pairs[i], comparison.to_update)
                     <=> has_event_changed(pairs[i][1], pairs[i][2]) = PyBool(TRUE)
            /\ \A i \in DOMAIN comparison.to_update :
                  /\ InSeq(comparison.to_update[i], pairs)
                  /\ ~InSeq(comparison.to_update[i][1], comparison.to_add)
                  /\ ~InSeq(comparison.to_update[i][2], comparison.to_delete)
            /\ Range(comparison.to_add) \subseteq Range(ical_events)
            /\ Range(comparison.to_delete) \subseteq Range(google_events)

\* C2: after every action of compare(sources, targets) has been applied
\* successfully, compare(sources, targets') has empty to_add, to_update and
\* to_delete: the second cycle issues no create, update or delete.
C2_FixpointInOneCycle ==
    pc = "rec_done" =>
        /\ exc = None
        /\ comparison.to_add = <<>>
        /\ comparison.to_update = <<>>
        /\ comparison.to_delete = <<>>

\* the field's value under the accessor's stated policy for a missing key
FieldValue(event, field) ==
    LET v == event_field(event, field)
    IN  IF v.k = "KeyError"
        THEN (IF field \in {EVENT_SUMMARY, EVENT_DESCRIPTION} THEN Str("") ELSE None)
        ELSE v

\* the key of the event's mapping that holds the field
KeyOf(event, field) ==
    IF IsICal(event)
    THEN CASE field = EVENT_ID -> "UID"
           [] field = EVENT_SUMMARY -> "SUMMARY"
           [] field = EVENT_DESCRIPTION -> "DESCRIPTION"
           [] field = EVENT_STATUS -> "STATUS"
           [] field = EVENT_LOCATION -> "LOCATION"
           [] field = EVENT_RECURRENCE -> "RRULE"
           [] field = EVENT_START -> "DTSTART"
           [] field = EVENT_END -> "DTEND"
    ELSE field

NumErrors(e) == Len(e.add) + Len(e.update) + Len(e.delete)

\* the positions of a category whose store call raised
Failed(cat) == {i \in 1..(MaxFeed + MaxStore + 1) : <<cat, i>> \in env.fails}

\* the event without its store id
Body(g) == [g EXCEPT !.id = GId(0)]

\* C3: sync is a best-effort batch: when the call for one item fails every
\* other item of to_add, to_update and to_delete is still attempted, the
\* effects of the calls that succeeded are in the store, the error mapping
\* holds exactly one entry per failed item under the item's category and
\* none for an item that succeeded, and nothing is raised.
C3_BestEffortBatch ==
    (pc = "poll" /\ ~args.dry_run) =>
        LET old == {g.id : g \in Range(google_events)}
            created == {g \in Range(store) : g.id \notin old}
        IN  /\ exc = None
            /\ Range(calls) = Items(comparison)
            /\ Len(calls) = Cardinality(Items(comparison))
            /\ \A cat \in {ACTION_ADD, ACTION_UPDATE, ACTION_DELETE} :
                  /\ Range(errors[cat]) = Failed(cat)
                  /\ Len(errors[cat]) = Cardinality(Failed(cat))
            /\ \A i \in DOMAIN comparison.to_add :
                  i \notin Failed(ACTION_ADD) =>
                     \E g \in created : Body(g) = ToGoogle(comparison.to_add[i], GId(0))
            /\ Cardinality(created)
                  = Len(comparison.to_add) - Cardinality(Failed(ACTION_ADD))
            /\ \A i \in DOMAIN comparison.to_update :
                  LET g == comparison.to_update[i][2]
                      \* the updates of this target that succeeded
                      done == {j \in DOMAIN comparison.to_update :
                                 /\ comparison.to_update[j][2].id = g.id
                                 /\ j \notin Failed(ACTION_UPDATE)}
                      last == CHOOSE j \in done : \A k \in done : k <= j
                  IN  IF done = {}
                      THEN InSeq(g, store)
                      ELSE InSeq(ToGoogle(comparison.to_update[last][1], g.id), store)
            /\ \A i \in DOMAIN comparison.to_delete :
                  LET g == comparison.to_delete[i]
                  IN  IF i \in Failed(ACTION_DELETE)
                      THEN InSeq(g, store)
                      ELSE \A h \in Range(store) : h.id # g.id

\* C3 witness: of two events to add the first call failed, the second was
\* still made and its event is in the store.
C3_Witness ==
    /\ pc = "poll" /\ ~args.dry_run
    /\ Len(comparison.to_add) = 2
    /\ env.fails = {<<ACTION_ADD, 1>>}
    /\ errors.add = <<1>>
    /\ calls = <<<<ACTION_ADD, 1>>, <<ACTION_ADD, 2>>>>
    /\ \E g \in Range(store) : Body(g) = ToGoogle(comparison.to_add[2], GId(0))

\* C4: with dry_run no create, update or delete is invoked in any cycle: the
\* store stays what it was before the first cycle and the error mapping has
\* the three categories, all empty.
C4_DryRunFrame ==
    args.dry_run =>
        /\ store = store0
        /\ calls = <<>>
        /\ pc = "poll" =>
              /\ DOMAIN errors = {ACTION_ADD, ACTION_UPDATE, ACTION_DELETE}
              /\ NumErrors(errors) = 0

\* C4 witness: the second cycle of a polling dry run has compared, found an
\* event to add and an event to update, and sync has returned.
C4_Witness ==
    /\ args.dry_run /\ pc = "poll" /\ cycles = 2
    /\ comparison.to_add # <<>>
    /\ comparison.to_update # <<>>

\* C5: without a poll interval the pipeline runs once and the program ends
\* without sleeping; with a poll interval every completed cycle is followed
\* by one sleep and the next cycle, the loop ends only by an exception, and
\* no sleep happens before the cycle's sync has returned.
C5_PollLoop ==
    /\ args.poll_interval = None =>
          /\ sleeps = 0
          /\ cycles = 1
          /\ pc \in {"returned", "exit"} /\ exc = None => synced = 1
    /\ args.poll_interval # None =>
          /\ pc # "returned"
          /\ pc = "exit" => exc # None
          /\ cycles = sleeps + 1
          /\ sleeps <= synced
          /\ pc = "poll" => synced = cycles
          /\ pc \in {"load", "ofilter", "init_service", "gfilter", "compare", "sync"}
                => synced = sleeps

\* C5 witness: a polling run has slept once and completed its second cycle.
C5_Witness ==
    /\ args.poll_interval # None
    /\ pc = "poll" /\ sleeps = 1 /\ synced = 2

\* C6: a cycle whose sync returned errors goes on as one without errors
\* (exit code 0 in one-shot mode, the sleep and the next cycle in polling
\* mode); an exception raised in the cycle ends the loop and sys_main
\* returns 1.
C6_OnlyFatalErrorsChangeTheOutcome ==
    /\ (synced = cycles /\ NumErrors(errors) > 0) =>
          /\ exc = None
          /\ pc \in {"poll", "returned", "exit"}
          /\ pc = "exit" => rc = 0
    /\ exc # None => pc \in {"raised", "exit"}
    /\ pc = "raised" => exc # None
    /\ pc = "exit" => rc = IF exc = None THEN 0 ELSE 1
    /\ args.poll_interval # None => cycles = sleeps + 1

\* C6 witness: a one-shot run whose sync returned an error has exited with 0.
C6_Witness ==
    /\ pc = "exit" /\ rc = 0
    /\ NumErrors(errors) > 0

\* the exceptions of the steps after load_calendar
LaterExceptions ==
    {None, PyException("authentication failed"), PyException("store unreachable"),
     KeyError("UID"), KeyError("SUMMARY"), KeyError("LOCATION"), KeyError("location")}

\* C8: with an output file configured load_calendar returns the parsed
\* calendar whether or not the side file could be written; the failure is
\* logged and the cycle goes on with the same events; load_calendar raises
\* only when the retrieval failed.
C8_SideFileIsBestEffort ==
    pc # "load" =>
        IF env.retrieved
        THEN /\ ical_cal = feed
             /\ exc \in LaterExceptions
             /\ pc \notin {"ofilter", "raised", "exit"} =>
                   ical_events = filter_events(feed, args.ical_id, args.ical_summary)[1]
             /\ (pc = "ofilter" /\ args.ical_output # None /\ ~env.write_ok) =>
                   log # {}
        ELSE /\ pc \in {"raised", "exit"}
             /\ exc \notin LaterExceptions

\* C8 witness: the calendar came from the URL, writing the side file failed,
\* and the cycle has reached sync with the events of the feed.
C8_Witness ==
    /\ pc = "sync"
    /\ StartsWithHttp(args.ical_calendar)
    /\ args.ical_output # None /\ ~env.write_ok
    /\ ical_events # <<>> /\ ical_events = feed

\* C7: event_field does not fail on a field of the enumerated set because
\* the event lacks the attribute: a missing summary or description gives the
\* empty string, a missing status, location, recurrence, start or end gives
\* None; only a field name outside the enumerated set is an error.
C7_MissingFieldHasDefault ==
    pc = "field_done" =>
        /\ fname \notin Range(EVENT_FIELDS) => IsRaise(fresult)
        /\ (fname \in Range(EVENT_FIELDS) \ {EVENT_ID}
              /\ ~Has(fevent, KeyOf(fevent, fname))) =>
                 fresult = IF fname \in {EVENT_SUMMARY, EVENT_DESCRIPTION}
                           THEN Str("") ELSE None

\* C9: is_same_event is true iff the source's id equals the target's linked
\* identity, and an absent or empty identity never matches: a target without
\* linked identity matches no source, a source with the empty id included.
C9_EmptyIdentityNeverMatches ==
    pc \in {"match_same", "match_done"} =>
        (same = PyBool(TRUE)) <=>
            /\ Has(google, "iCalUID")
            /\ google.iCalUID # Str("")
            /\ outlook.UID = google.iCalUID

\* C10: for a matched pair has_event_changed returns true iff at least one of
\* summary, description, location, start, end differs between the two events
\* and false iff all five are equal, whatever status and recurrence are and
\* whatever the order of the five checks.
C10_ChangedIffComparableFieldDiffers ==
    (pc = "match_done" /\ same = PyBool(TRUE)) =>
        changed = PyBool(\E f \in Range(EVENT_COMPARISON_FIELDS) :
                            ~PyEq(FieldValue(outlook, f), FieldValue(google, f)))

====
